---------------------------- MODULE Spec2Model ----------------------------
(***************************************************************************)
(* Model of src/main.py: the Streamlit page "Pharma AI Brand Manager".     *)
(*                                                                         *)
(* The page is a script that Streamlit executes top to bottom once per     *)
(* user interaction.  The model has three specifications:                  *)
(*   Spec        the page: session state, the widgets' stored values, and  *)
(*               the trace of what one execution of the script renders and *)
(*               requests;                                                 *)
(*   FilterSpec  filter_strategic_imperatives applied to bounded matrices; *)
(*   GenSpec     generate_ai_output applied to bounded response texts.     *)
(***************************************************************************)
EXTENDS Integers, Sequences, FiniteSets, TLC

VARIABLES
    \* ---- the page (Spec) ----
    wb,            \* which workbook test.xlsx is (read-only input), see Workbook
    keeps_stale,   \* whether this Streamlit release keeps the stored values of
                   \* widgets that an execution ending early did not render
    api_key,       \* whether st.secrets / OPENAI_API_KEY yields a key
    ss,            \* st.session_state and the widgets' stored values
    page,          \* the last execution of the script: what it rendered and
                   \* requested, how it ended, its script variables
    last_event,    \* the user interaction that caused the last execution
    \* ---- filter_strategic_imperatives (FilterSpec) ----
    f_df, f_args, f_result,
    \* ---- generate_ai_output (GenSpec) ----
    g_args, g_result

vars == <<wb, keeps_stale, api_key, ss, page, last_event, f_df, f_args, f_result, g_args, g_result>>

-----------------------------------------------------------------------------
(* Values shared by the three specifications                               *)

\* pandas' missing value (an empty spreadsheet cell)
NaN == "<NaN>"

\* Python's str.lower() on the strings the model uses; astype(str) turns a
\* missing cell into the text "nan" first (main.py line 259).
Lower(s) ==
    CASE s = "X" -> "x"
      [] s = "Caregiver" -> "caregiver"
      [] s = "CAREGIVER" -> "caregiver"
      [] s = "HCP" -> "hcp"
      [] s = "Patient" -> "patient"
      [] s = NaN -> "nan"
      [] OTHER -> s

Range(s) == {s[i] : i \in 1..Len(s)}

RECURSIVE DropNa(_)
\* Series.dropna(): the values that are not missing, in order
DropNa(s) ==
    IF s = <<>> THEN <<>>
    ELSE IF Head(s) = NaN THEN DropNa(Tail(s))
    ELSE <<Head(s)>> \o DropNa(Tail(s))

RECURSIVE Unique(_)
\* Series.unique(): distinct values in order of first appearance
Unique(s) ==
    IF s = <<>> THEN <<>>
    ELSE LET init == Unique(SubSeq(s, 1, Len(s) - 1))
             x == s[Len(s)]
         IN IF x \in Range(init) THEN init ELSE Append(init, x)

\* One thing a script execution does that the user or the network can see:
\* a rendered element (t = its kind) or a request to the text-generation
\* service (t = "request").
Ev(t, a, b, c) == [t |-> t, a |-> a, b |-> b, c |-> c]

IdentityColumn == "Strategic Imperative"

-----------------------------------------------------------------------------
(* filter_strategic_imperatives, main.py lines 253-266                     *)

SchemaMismatchMsg == "The Excel file's columns do not match the expected names for filtering."
FilterErrorMsg == "Error filtering strategic imperatives"

MarkedNoLower(row, col) == row[col] = "x"
\* (df[col].astype(str).str.lower() == 'x') for one row
Marked(row, col) == Lower(row[col]) = "x"

RECURSIVE FilterRows(_, _, _, _)
\* df[mask]: the rows marked in all three columns, in row order
FilterRows(rows, role, lifecycle, journey) ==
    IF rows = <<>> THEN <<>>
    ELSE LET r == Head(rows)
             rest == FilterRows(Tail(rows), role, lifecycle, journey)
         IN IF Marked(r, role) /\ Marked(r, lifecycle) /\ Marked(r, journey)
            THEN <<r>> \o rest
            ELSE rest

filter_NoColumnCheck(df, role, lifecycle, journey) ==
    LET cols == Range(df.columns)
    IN IF role \notin cols \/ lifecycle \notin cols \/ journey \notin cols
            \/ IdentityColumn \notin cols
       THEN \* df[role] raises KeyError, caught at 264
            [ret |-> <<>>, errors |-> <<FilterErrorMsg>>]
       ELSE LET hit == FilterRows(df.rows, role, lifecycle, journey)
            IN [ret |-> DropNa([i \in 1..Len(hit) |-> hit[i][IdentityColumn]]),
                errors |-> <<>>]

\* Returns the list and the st.error notices it showed.
filter_strategic_imperatives(df, role, lifecycle, journey) ==
    LET cols == Range(df.columns)
    IN IF role \notin cols \/ lifecycle \notin cols \/ journey \notin cols
       THEN [ret |-> <<>>, errors |-> <<SchemaMismatchMsg>>]
       ELSE IF IdentityColumn \notin cols
       THEN \* filtered["Strategic Imperative"] raises KeyError, caught at 264
            [ret |-> <<>>, errors |-> <<FilterErrorMsg>>]
       ELSE LET hit == FilterRows(df.rows, role, lifecycle, journey)
            IN [ret |-> DropNa([i \in 1..Len(hit) |-> hit[i][IdentityColumn]]),
                errors |-> <<>>]

-----------------------------------------------------------------------------
(* generate_ai_output, main.py lines 271-307                               *)
(*                                                                         *)
(* The response text is a sequence of tokens: "{", "}", ",", a JSON member *)
(* "key:value" with string key and string value, or "txt" (any other       *)
(* text).                                                                  *)

Missing == "<missing>"
Members == {"description:d", "description:e", "cost:c", "timeframe:t"}
Tokens == {"{", "}", ",", "txt"} \cup Members

MemberKey(tok) ==
    CASE tok \in {"description:d", "description:e"} -> "description"
      [] tok = "cost:c" -> "cost"
      [] tok = "timeframe:t" -> "timeframe"
      [] OTHER -> ""

MemberValue(tok) ==
    CASE tok = "description:d" -> "d"
      [] tok = "description:e" -> "e"
      [] tok = "cost:c" -> "c"
      [] tok = "timeframe:t" -> "t"
      [] OTHER -> ""

Sentinel == [description |-> "N/A", cost |-> "N/A", timeframe |-> "N/A"]
EmptyDict == [description |-> Missing, cost |-> Missing, timeframe |-> Missing]

NoJsonMsg == "No valid JSON object found in the response."
DecodeMsg == "Error decoding the JSON object. Please try again."
GenerateErrorMsg == "Error generating tactical recommendation"

\* re.search(r'\{.*\}', content, re.DOTALL): from the first "{" to the last
\* "}" after it; <<>> when there is no match.
BraceSpan(content) ==
    LET opens == {i \in 1..Len(content) : content[i] = "{"}
    IN IF opens = {} THEN <<>>
       ELSE LET i == CHOOSE x \in opens : \A y \in opens : x <= y
                closes == {j \in i + 1..Len(content) : content[j] = "}"}
            IN IF closes = {} THEN <<>>
               ELSE LET j == CHOOSE x \in closes : \A y \in closes : x >= y
                    IN SubSeq(content, i, j)

\* Whether json.loads accepts the span: "{" members separated by "," "}".
JsonValid(span) ==
    /\ Len(span) >= 2
    /\ span[1] = "{"
    /\ span[Len(span)] = "}"
    /\ LET inner == SubSeq(span, 2, Len(span) - 1)
       IN \/ inner = <<>>
          \/ /\ Len(inner) % 2 = 1
             /\ \A i \in 1..Len(inner) :
                    IF i % 2 = 1 THEN inner[i] \in Members ELSE inner[i] = ","

\* json.loads of an accepted span: a dict; of a repeated key the last wins.
JsonLoads(span) ==
    LET at(key) == {i \in 1..Len(span) : MemberKey(span[i]) = key}
        val(key) == IF at(key) = {} THEN Missing
                    ELSE MemberValue(span[CHOOSE i \in at(key) : \A j \in at(key) : i >= j])
    IN [description |-> val("description"), cost |-> val("cost"),
        timeframe |-> val("timeframe")]

\* differentiators_text, line 272 (", ".join is kept as the list joined)
DifferentiatorsText(selected_differentiators) ==
    IF selected_differentiators = <<>> THEN <<"None">> ELSE selected_differentiators

\* json.loads(json_str) of the matched span, lines 294-304 (<<>>: no match)
ParseSpan(span) ==
    IF span = <<>>
    THEN [exc |-> "", errors |-> <<NoJsonMsg>>, output |-> Sentinel]
    ELSE IF ~JsonValid(span)
    THEN [exc |-> "", errors |-> <<DecodeMsg>>, output |-> Sentinel]
    ELSE [exc |-> "", errors |-> <<>>, output |-> JsonLoads(span)]

\* The try block, lines 283-304.  response.status is "error" when
\* openai.ChatCompletion.create raises, "none" when the reply carries no
\* text (content is None, so .strip() raises AttributeError), "text" when
\* it carries response.content.  exc names the exception that leaves the
\* block ("" when none does); JSONDecodeError is caught inside it, line 301.
GenerateBody(response) ==
    IF response.status = "error"
    THEN [exc |-> "APIError", errors |-> <<>>, output |-> EmptyDict]
    ELSE IF response.status = "none"
    THEN [exc |-> "AttributeError", errors |-> <<>>, output |-> EmptyDict]
    ELSE ParseSpan(BraceSpan(response.content))

ErrorEvents(msgs) == [i \in 1..Len(msgs) |-> Ev("error", msgs[i], "", <<>>)]

ExceptException_Missing(req, body) ==
    IF body.exc # ""
    THEN [raised |-> TRUE, trace |-> <<req>>, output |-> EmptyDict]
    ELSE [raised |-> FALSE, trace |-> <<req>> \o ErrorEvents(body.errors),
          output |-> body.output]

\* try ... except Exception as e, lines 282 and 305-307, around the block's
\* outcome `body`, after the request `req` was sent
ExceptException(req, body) ==
    IF body.exc # ""
    THEN [raised |-> FALSE,
          trace |-> <<req, Ev("error", GenerateErrorMsg, body.exc, <<>>)>>,
          output |-> Sentinel]
    ELSE [raised |-> FALSE, trace |-> <<req>> \o ErrorEvents(body.errors),
          output |-> body.output]

\* Returns what the call requested and rendered (trace), the returned dict
\* (output) and whether an exception left the function (raised).
generate_ai_output(tactic_text, selected_differentiators, response) ==
    ExceptException(
        Ev("request", tactic_text, "", DifferentiatorsText(selected_differentiators)),
        GenerateBody(response))

-----------------------------------------------------------------------------
(* The workbook test.xlsx                                                  *)

\* Sheet 1 header, columns A..M as the page expects them
GoodHeader ==
    <<"Strategic Imperative", "HCP", "Patient", "Caregiver", "Notes",
      "Launch", "Growth", "Maturity", "Decline",
      "Awareness", "Diagnosis", "Treatment", "Adherence">>

MatrixRow(name, marks, token) ==
    [c \in Range(GoodHeader) |->
        IF c = IdentityColumn THEN name ELSE IF c \in marks THEN token ELSE NaN]

GoodSheet1 ==
    [readable |-> TRUE,
     columns |-> GoodHeader,
     rows |-> << MatrixRow("I1", {"HCP", "Patient", "Launch", "Growth", "Awareness"}, "x"),
                 MatrixRow("I2", {"HCP", "Patient", "Launch", "Growth", "Awareness"}, "X"),
                 MatrixRow(NaN, {"HCP", "Launch", "Awareness"}, "x"),
                 MatrixRow("I3", {"HCP", "Launch", "Awareness"}, "x"),
                 MatrixRow("I4", {"HCP", "Launch", "Awareness", "Diagnosis"}, "x") >>]

GoodSheet2 ==
    [readable |-> TRUE,
     columns |-> <<"Differentiator">>,
     values |-> <<"D1", NaN, "D1", "D2">>]

Sheet3Columns == <<"Strategic Imperative", "Patient & Caregiver", "HCP Engagement">>

TacticRow(name, patient, hcp) ==
    [c \in Range(Sheet3Columns) |->
        IF c = IdentityColumn THEN name
        ELSE IF c = "Patient & Caregiver" THEN patient ELSE hcp]

\* no row for I3; two rows for I1
GoodSheet3 ==
    [readable |-> TRUE,
     columns |-> Sheet3Columns,
     rows |-> << TacticRow("I1", "P1", "H1"), TacticRow("I2", "P2", "H2"),
                 TacticRow("I4", "P4", "H4"), TacticRow("I1", "P1b", "H1b") >>]

GoodWorkbook == [sheet1 |-> GoodSheet1, sheet2 |-> GoodSheet2, sheet3 |-> GoodSheet3]

\* A workbook with one imperative, marked for two roles whose names differ
\* from "HCP" only in case or not at all, and one differentiator.
SmallWorkbook ==
    [sheet1 |-> [readable |-> TRUE,
                 columns |-> <<"Strategic Imperative", "hcp", "HCP", "CAREGIVER", "Notes",
                               "Launch", "Growth", "Maturity", "Decline",
                               "Awareness", "Diagnosis", "Treatment", "Adherence">>,
                 rows |-> << [c \in Range(GoodHeader) \cup {"hcp", "CAREGIVER"} |->
                                 IF c = IdentityColumn THEN "I1"
                                 ELSE IF c \in {"hcp", "HCP", "Launch", "Awareness"} THEN "x"
                                 ELSE NaN] >>],
     sheet2 |-> [readable |-> TRUE, columns |-> <<"Id", "Differentiator">>, values |-> <<"D1">>],
     sheet3 |-> GoodSheet3]

Without(seq, x) == SelectSeq(seq, LAMBDA y : y # x)

\* The workbooks the page is run on, by name: the good one, the small one,
\* and the small one in each way a sheet can be unreadable or lack what the
\* page requires.
WorkbookNames ==
    { "good", "small", "sheet1 unreadable", "sheet1 twelve columns", "sheet1 no identity column",
      "sheet2 unreadable", "sheet2 no Differentiator", "sheet3 unreadable" }
    \cup { "sheet3 no Strategic Imperative", "sheet3 no Patient & Caregiver",
           "sheet3 no HCP Engagement" }

Workbook(name) ==
    CASE name = "good" -> GoodWorkbook
      [] name = "small" -> SmallWorkbook
      [] name = "sheet1 unreadable" -> [SmallWorkbook EXCEPT !.sheet1.readable = FALSE]
      [] name = "sheet1 twelve columns" ->
            [SmallWorkbook EXCEPT !.sheet1.columns = SubSeq(SmallWorkbook.sheet1.columns, 1, 12)]
      [] name = "sheet1 no identity column" ->
            [SmallWorkbook EXCEPT !.sheet1.columns = <<"Imperative">> \o Tail(SmallWorkbook.sheet1.columns)]
      [] name = "sheet2 unreadable" -> [SmallWorkbook EXCEPT !.sheet2.readable = FALSE]
      [] name = "sheet2 no Differentiator" -> [SmallWorkbook EXCEPT !.sheet2.columns = <<"Id", "Differentiators">>]
      [] name = "sheet3 unreadable" -> [SmallWorkbook EXCEPT !.sheet3.readable = FALSE]
      [] name = "sheet3 no Strategic Imperative" ->
            [SmallWorkbook EXCEPT !.sheet3.columns = Without(Sheet3Columns, "Strategic Imperative")]
      [] name = "sheet3 no Patient & Caregiver" ->
            [SmallWorkbook EXCEPT !.sheet3.columns = Without(Sheet3Columns, "Patient & Caregiver")]
      [] name = "sheet3 no HCP Engagement" ->
            [SmallWorkbook EXCEPT !.sheet3.columns = Without(Sheet3Columns, "HCP Engagement")]

-----------------------------------------------------------------------------
(* load_criteria, main.py lines 212-231                                    *)

RequiredColumns == 13

Min(a, b) == IF a < b THEN a ELSE b

\* Python's seq[from:to]
Slice(seq, from, to) == SubSeq(seq, from + 1, Min(to, Len(seq)))

LoadErrorMsg == "Error reading the Excel file (Sheet1)"
TooFewColumnsMsg == "Excel file has too few columns but at least 13 are required."

load_criteria(sheet1) ==
    LET columns == Slice(sheet1.columns, 0, RequiredColumns)   \* usecols="A:M"
    IN IF ~sheet1.readable
       THEN [ok |-> FALSE, errors |-> <<LoadErrorMsg>>,
             role_options |-> <<>>, lifecycle_options |-> <<>>,
             journey_options |-> <<>>, matrix_df |-> [columns |-> <<>>, rows |-> <<>>]]
       ELSE IF Len(columns) < RequiredColumns
       THEN [ok |-> FALSE, errors |-> <<TooFewColumnsMsg>>,
             role_options |-> <<>>, lifecycle_options |-> <<>>,
             journey_options |-> <<>>, matrix_df |-> [columns |-> <<>>, rows |-> <<>>]]
       ELSE [ok |-> TRUE, errors |-> <<>>,
             role_options |-> SelectSeq(Slice(columns, 1, 4),
                                        LAMBDA opt : Lower(opt) # "caregiver"),
             lifecycle_options |-> Slice(columns, 5, 9),
             journey_options |-> Slice(columns, 9, 13),
             matrix_df |-> [columns |-> columns, rows |-> sheet1.rows]]

role_placeholder == "Audience"
lifecycle_placeholder == "Product Life Cycle"
journey_placeholder == "Customer Journey Focus"
disease_placeholder == "Disease State"

\* how many of the ten disease states of lines 244-247 the model offers
NumDiseases == 1

disease_states ==
    SubSeq(<<"Diabetes", "Hypertension", "Asthma", "Depression", "Arthritis",
             "Alzheimer's", "COPD", "Obesity", "Cancer", "Stroke">>, 1, Min(NumDiseases, 10))

role_dropdown_options(loaded) == <<role_placeholder>> \o loaded.role_options
lifecycle_dropdown_options(loaded) == <<lifecycle_placeholder>> \o loaded.lifecycle_options
journey_dropdown_options(loaded) == <<journey_placeholder>> \o loaded.journey_options
disease_dropdown_options == <<disease_placeholder>> \o disease_states

-----------------------------------------------------------------------------
(* One execution of the script, main.py lines 62-396                       *)

\* max_selections of both multiselects, lines 326 and 339
MaxSelections == 3

NoWidget == [opts |-> <<>>, sel |-> <<>>]

\* A fresh session: logged_in is set at line 134, a select box shows its
\* first option, and no multiselect has a stored value.
NewSession ==
    [logged_in |-> FALSE,
     role |-> role_placeholder, lifecycle |-> lifecycle_placeholder,
     journey |-> journey_placeholder, disease |-> disease_placeholder,
     imp |-> NoWidget, diff |-> NoWidget]

MultiselectValue_Kept(stored, options) == stored.sel

\* st.multiselect without a key: its stored value belongs to the widget with
\* these very options; a multiselect with other options is a new widget and
\* starts empty.
MultiselectValue(stored, options) ==
    IF stored.opts = options THEN stored.sel ELSE <<>>

\* Stored values of widgets the execution did not render.  An execution that
\* ran to the end drops them; one that ended early (st.stop, an uncaught
\* exception) drops or keeps them, depending on the Streamlit release.
Stale(stored) == IF keeps_stale THEN stored ELSE NoWidget

Result(trace, end, s, strategics, differentiators) ==
    [trace |-> trace, end |-> end, ss |-> s,
     strategics |-> strategics, differentiators |-> differentiators]

Footer == <<Ev("markdown", "custom-footer", "", <<>>)>>

ApiKeyMsg == "OpenAI API key not found."
NoImperativesMsg == "No strategic imperatives found for these selections. Please try different options."
Sheet2ReadMsg == "Error reading Sheet2"
Sheet2ColumnMsg == "Sheet2 must have a column named 'Differentiator'."
Sheet3ReadMsg == "Error reading Sheet3"
Sheet3ColumnMsg == "Sheet3 must have columns named 'Strategic Imperative', 'Patient & Caregiver', and 'HCP Engagement'."
NoTacticMsg == "No tactic found for strategic imperative"

\* sheet3[sheet3["Strategic Imperative"] == imperative], line 366
TacticRows(sheet3, imperative) ==
    SelectSeq(sheet3.rows, LAMBDA r : r[IdentityColumn] = imperative)

TacticColumn_CaseInsensitive(role_selected) ==
    IF Lower(role_selected) = "hcp" THEN "HCP Engagement" ELSE "Patient & Caregiver"

\* lines 370-373
TacticColumn(role_selected) ==
    IF role_selected = "HCP" THEN "HCP Engagement" ELSE "Patient & Caregiver"

\* dict.get(key, default), lines 376-378
Get(output, key, default) == IF output[key] = Missing THEN default ELSE output[key]

\* lines 375-378: the result of one imperative, rendered
RenderRecommendation(imperative, tactic, ai) ==
    IF ai.raised
    THEN [trace |-> ai.trace, raised |-> TRUE]
    ELSE [trace |-> ai.trace \o
             << Ev("subheader", imperative, tactic, <<>>),
                Ev("write", "description", Get(ai.output, "description", "No description available."), <<>>),
                Ev("write", "cost", Get(ai.output, "cost", "N/A"), <<>>),
                Ev("write", "timeframe", Get(ai.output, "timeframe", "N/A"), <<>>) >>,
          raised |-> FALSE]

NoTactic_Raises(imperative) ==
    [trace |-> <<Ev("info", NoTacticMsg, imperative, <<>>)>>, raised |-> TRUE]
\* lines 367-369: no row for the imperative
NoTactic(imperative) ==
    [trace |-> <<Ev("info", NoTacticMsg, imperative, <<>>)>>, raised |-> FALSE]

\* The body of the loop for one imperative, lines 366-378: what it renders
\* and requests, and whether an exception left it.
OneImperative(sheet3, imperative, role_selected, selected_differentiators, response) ==
    LET row == TacticRows(sheet3, imperative)
    IN IF row = <<>>
       THEN NoTactic(imperative)
       ELSE RenderRecommendation(imperative, row[1][TacticColumn(role_selected)],
                generate_ai_output(row[1][TacticColumn(role_selected)],
                                   selected_differentiators, response))

\* one iteration followed by the rest of the loop
Then(one, rest) ==
    IF one.raised THEN one
    ELSE [trace |-> one.trace \o rest.trace, raised |-> rest.raised]

RECURSIVE GenerationLoop(_, _, _, _, _, _)
\* for imperative in selected_strategics, lines 365-378, from the i-th on;
\* responses[i] is the service's answer to the request for the i-th
GenerationLoop(sheet3, selected_strategics, role_selected, selected_differentiators, responses, i) ==
    IF i > Len(selected_strategics) THEN [trace |-> <<>>, raised |-> FALSE]
    ELSE Then(OneImperative(sheet3, selected_strategics[i], role_selected,
                            selected_differentiators, responses[i]),
              GenerationLoop(sheet3, selected_strategics, role_selected,
                             selected_differentiators, responses, i + 1))

\* the end of the execution after the loop, lines 365-396
AfterLoop(s, t, selected_strategics, selected_differentiators, loop) ==
    IF loop.raised
    THEN Result(t \o loop.trace \o <<Ev("exception", "Exception", "", <<>>)>>,
                "exception", s, selected_strategics, selected_differentiators)
    ELSE Result(t \o loop.trace \o Footer, "done", s,
                selected_strategics, selected_differentiators)

\* if gen_plan_pressed, lines 354-378, and the footer after it
TacticalRecommendations(s, trace, selected_strategics, selected_differentiators, responses) ==
    LET t == trace \o <<Ev("header", "Tactical Recommendations", "", <<>>)>>
        sheet3 == Workbook(wb).sheet3
    IN IF ~sheet3.readable
       THEN Result(t \o <<Ev("error", Sheet3ReadMsg, "", <<>>)>>, "stop", s,
                   selected_strategics, selected_differentiators)
       ELSE IF ~(Range(Sheet3Columns) \subseteq Range(sheet3.columns))
       THEN Result(t \o <<Ev("error", Sheet3ColumnMsg, "", <<>>)>>, "stop", s,
                   selected_strategics, selected_differentiators)
       ELSE AfterLoop(s, t, selected_strategics, selected_differentiators,
                      GenerationLoop(sheet3, selected_strategics, s.role,
                                     selected_differentiators, responses, 1))

ActionButtons ==
    << Ev("markdown", "Additional Actions", "", <<>>),
       Ev("button", "gen_plan", "Generate Strategic Plan", <<>>),
       Ev("button", "comp_landscape", "Competitive Landscape", <<>>),
       Ev("button", "gen_campaign", "Generate Campaign", <<>>),
       Ev("button", "create_messaging", "Create Messaging", <<>>),
       Ev("button", "creative_campaign", "Creative Campaign Concepts", <<>>) >>

\* if selected_differentiators and len(selected_differentiators) > 0, line 341
DifferentiatorsChosen(selected_differentiators) == Len(selected_differentiators) > 0

\* lines 339-380: the differentiators' multiselect and what follows it
Step3Selected(s, t, product_diff_options, selected_strategics, selected_differentiators, event, responses) ==
    LET s3 == [s EXCEPT !.diff = [opts |-> product_diff_options,
                                  sel |-> selected_differentiators]]
        t3 == t \o <<Ev("multiselect", "differentiators", "", selected_differentiators)>>
    IN IF DifferentiatorsChosen(selected_differentiators)
       THEN IF event = "gen_plan"
            THEN TacticalRecommendations(s3, t3 \o ActionButtons, selected_strategics,
                                         selected_differentiators, responses)
            ELSE Result(t3 \o ActionButtons \o Footer, "done", s3,
                        selected_strategics, selected_differentiators)
       ELSE Result(t3 \o <<Ev("info", "Please select at least one product differentiator to proceed.", "", <<>>)>>
                      \o Footer,
                   "done", s3, selected_strategics, <<>>)

\* line 338 and the multiselect's value, line 339
Step3Options(s, t, product_diff_options, selected_strategics, event, responses) ==
    Step3Selected(s, t, product_diff_options, selected_strategics,
                  MultiselectValue(s.diff, product_diff_options), event, responses)

\* Step 3, lines 329-380 (s already holds the imperatives' multiselect)
Step3(s, trace, selected_strategics, event, responses) ==
    LET t == trace \o <<Ev("header", "Step 3: Select Product Differentiators", "", <<>>)>>
        sheet2 == Workbook(wb).sheet2
        early == [s EXCEPT !.diff = Stale(s.diff)]
    IN IF ~sheet2.readable
       THEN Result(t \o <<Ev("error", Sheet2ReadMsg, "", <<>>)>>, "stop", early,
                   selected_strategics, <<>>)
       ELSE IF "Differentiator" \notin Range(sheet2.columns)
       THEN Result(t \o <<Ev("error", Sheet2ColumnMsg, "", <<>>)>>, "stop", early,
                   selected_strategics, <<>>)
       ELSE Step3Options(s, t, Unique(DropNa(sheet2.values)), selected_strategics,
                         event, responses)

\* if selected_strategics and len(selected_strategics) > 0, line 328
ImperativesChosen(selected_strategics) == Len(selected_strategics) > 0

\* lines 326-382: the imperatives' multiselect and what follows it
Step2Selected(s, tf, strategic_options, selected_strategics, event, responses) ==
    LET s2 == [s EXCEPT !.imp = [opts |-> strategic_options, sel |-> selected_strategics]]
        t2 == tf \o <<Ev("multiselect", "strategics", "", selected_strategics)>>
    IN IF ImperativesChosen(selected_strategics)
       THEN Step3(s2, t2, selected_strategics, event, responses)
       ELSE Result(t2 \o <<Ev("info", "Please select at least one strategic imperative to proceed.", "", <<>>)>>
                      \o Footer,
                   "done", [s2 EXCEPT !.diff = NoWidget], <<>>, <<>>)

\* lines 323-382, f being what filter_strategic_imperatives returned and showed
Step2Filtered(s, t, f, event, responses) ==
    IF f.ret = <<>>
    THEN \* line 324, then line 328 reads selected_strategics, which no
         \* statement of this execution has assigned: NameError
         Result(t \o ErrorEvents(f.errors)
                  \o << Ev("warning", NoImperativesMsg, "", <<>>),
                        Ev("exception", "NameError", "selected_strategics", <<>>) >>,
                "exception",
                [s EXCEPT !.imp = Stale(s.imp), !.diff = Stale(s.diff)],
                <<>>, <<>>)
    ELSE Step2Selected(s, t \o ErrorEvents(f.errors), f.ret,
                       MultiselectValue(s.imp, f.ret), event, responses)

\* Step 2, lines 321-382
Step2(s, trace, loaded, event, responses) ==
    Step2Filtered(s, trace \o <<Ev("header", "Step 2: Select Strategic Imperatives", "", <<>>)>>,
                  filter_strategic_imperatives(loaded.matrix_df, s.role, s.lifecycle, s.journey),
                  event, responses)

CriteriaComplete_NoDisease(s) ==
    /\ s.role # role_placeholder
    /\ s.lifecycle # lifecycle_placeholder
    /\ s.journey # journey_placeholder

\* the condition of lines 318-319
CriteriaComplete(s) ==
    /\ s.role # role_placeholder
    /\ s.lifecycle # lifecycle_placeholder
    /\ s.journey # journey_placeholder
    /\ s.disease # disease_placeholder

LoadFailed_Continue(loaded) == FALSE
\* any(v is None ...), line 230
LoadFailed(loaded) == ~loaded.ok

\* lines 230-396, loaded being what load_criteria returned and showed
Loaded(s, trace, loaded, event, responses) ==
    LET t0 == trace \o ErrorEvents(loaded.errors)
        t1 == t0 \o << Ev("header", "Step 1: Select Your Criteria", "", <<>>),
                       Ev("selectbox", "role", s.role, role_dropdown_options(loaded)),
                       Ev("selectbox", "lifecycle", s.lifecycle, lifecycle_dropdown_options(loaded)),
                       Ev("selectbox", "journey", s.journey, journey_dropdown_options(loaded)),
                       Ev("selectbox", "disease", s.disease, disease_dropdown_options) >>
    IN IF LoadFailed(loaded)
       THEN Result(t0, "stop", [s EXCEPT !.imp = Stale(s.imp), !.diff = Stale(s.diff)],
                   <<>>, <<>>)
       ELSE IF CriteriaComplete(s)
       THEN Step2(s, t1, loaded, event, responses)
       ELSE Result(t1 \o <<Ev("info", "Please complete all criteria selections in Step 1 to proceed.", "", <<>>)>>
                      \o Footer,
                   "done", [s EXCEPT !.imp = NoWidget, !.diff = NoWidget], <<>>, <<>>)

\* From the sidebar on, lines 194-396: the page of a logged-in user
MainFlow(s, event, responses) ==
    Loaded(s, <<Ev("sidebar", "Pharma AI Brand Manager", "", <<>>)>>,
           load_criteria(Workbook(wb).sheet1), event, responses)

LoginOverlay ==
    << Ev("markdown", "login-overlay", "", <<>>),
       Ev("form_submit_button", "Back", "", <<>>),
       Ev("form_submit_button", "Next", "", <<>>),
       Ev("form_submit_button", "Sign in with Microsoft", "", <<>>) >>

show_login_overlay_AnyButton(event) == event \in {"Back", "Next", "Sign in with Microsoft"}
\* show_login_overlay's return value, lines 176-180
show_login_overlay(event) == event \in {"Next", "Sign in with Microsoft"}

\* The whole script for one user interaction.  event names the widget the
\* user acted on ("open": the page was opened).
Script(s, event, responses) ==
    IF ~api_key
    THEN Result(<<Ev("error", ApiKeyMsg, "", <<>>)>>, "stop", s, <<>>, <<>>)
    ELSE IF ~s.logged_in /\ ~show_login_overlay(event)
    THEN Result(LoginOverlay, "stop", s, <<>>, <<>>)
    ELSE \* logged in already, or lines 186-187: logged_in is set and
         \* st.experimental_rerun() starts the script again at once
         MainFlow([s EXCEPT !.logged_in = TRUE],
                  IF s.logged_in THEN event ELSE "rerun", responses)

-----------------------------------------------------------------------------
(* Spec: the page and its user                                             *)

Canonical == <<"{", "description:d", ",", "cost:c", ",", "timeframe:t", "}">>

\* what the service answers to one request, in Spec: a failure, or some text
\* holding an object that lacks two of the keys
FlowResponses ==
    { [status |-> "error", content |-> <<>>],
      [status |-> "text", content |-> <<"txt", "{", "cost:c", "}">>] }

\* the values of the variables of a specification that is not running
FilterIdle ==
    /\ f_df = [columns |-> <<>>, rows |-> <<>>]
    /\ f_args = <<>>
    /\ f_result = [called |-> FALSE, ret |-> <<>>, errors |-> <<>>]
GenIdle ==
    /\ g_args = <<>>
    /\ g_result = [called |-> FALSE, raised |-> FALSE, trace |-> <<>>, output |-> EmptyDict]
PageIdle ==
    /\ wb = "good" /\ keeps_stale = FALSE /\ api_key = TRUE
    /\ ss = NewSession
    /\ page = [trace |-> <<>>, end |-> "done", strategics |-> <<>>, differentiators |-> <<>>]
    /\ last_event = "open"

PageOf(r) == [trace |-> r.trace, end |-> r.end,
              strategics |-> r.strategics, differentiators |-> r.differentiators]

NoResponses == [i \in 1..MaxSelections |-> [status |-> "error", content |-> <<>>]]

\* Streamlit executes the script for the interaction `event`
Execute(s, event, responses) ==
    \E r \in {Script(s, event, responses)} :
       /\ ss' = r.ss
       /\ page' = PageOf(r)
       /\ last_event' = event
       /\ UNCHANGED <<wb, keeps_stale, api_key, f_df, f_args, f_result, g_args, g_result>>

Rendered(t, a) == \E i \in 1..Len(page.trace) : page.trace[i].t = t /\ page.trace[i].a = a

\* the options of a rendered select box (none when it is not on the page)
Options(t, a) ==
    IF Rendered(t, a)
    THEN LET i == CHOOSE i \in 1..Len(page.trace) : page.trace[i].t = t /\ page.trace[i].a = a
         IN page.trace[i].c
    ELSE <<>>

Init ==
    /\ wb \in WorkbookNames
    /\ keeps_stale \in BOOLEAN
    /\ api_key \in BOOLEAN
    /\ last_event = "open"
    /\ \E r \in {Script(NewSession, "open", NoResponses)} :
          ss = r.ss /\ page = PageOf(r)
    /\ FilterIdle
    /\ GenIdle

\* a click on one of the login overlay's three form buttons
ClickLogin ==
    \E b \in {"Back", "Next", "Sign in with Microsoft"} :
        /\ Rendered("form_submit_button", b)
        /\ Execute(ss, b, NoResponses)

SelectRole ==
    \E v \in Range(Options("selectbox", "role")) :
        /\ Rendered("selectbox", "role")
        /\ v # ss.role
        /\ Execute([ss EXCEPT !.role = v], "role", NoResponses)

SelectLifecycle ==
    \E v \in Range(Options("selectbox", "lifecycle")) :
        /\ Rendered("selectbox", "lifecycle")
        /\ v # ss.lifecycle
        /\ Execute([ss EXCEPT !.lifecycle = v], "lifecycle", NoResponses)

SelectJourney ==
    \E v \in Range(Options("selectbox", "journey")) :
        /\ Rendered("selectbox", "journey")
        /\ v # ss.journey
        /\ Execute([ss EXCEPT !.journey = v], "journey", NoResponses)

SelectDisease ==
    \E v \in Range(Options("selectbox", "disease")) :
        /\ Rendered("selectbox", "disease")
        /\ v # ss.disease
        /\ Execute([ss EXCEPT !.disease = v], "disease", NoResponses)

\* The multiselect's own limit: with max_selections chosen it takes no more.
CanAdd(sel) == Len(sel) < MaxSelections

\* the user adds one imperative to the multiselect, or removes one
ChooseImperative ==
    /\ Rendered("multiselect", "strategics")
    /\ \E x \in Range(ss.imp.opts) :
          LET sel == IF x \in Range(ss.imp.sel) THEN Without(ss.imp.sel, x)
                     ELSE Append(ss.imp.sel, x)
          IN /\ x \in Range(ss.imp.sel) \/ CanAdd(ss.imp.sel)
             /\ Execute([ss EXCEPT !.imp.sel = sel], "strategics", NoResponses)

\* the user adds one differentiator to the multiselect, or removes one
ChooseDifferentiator ==
    /\ Rendered("multiselect", "differentiators")
    /\ \E x \in Range(ss.diff.opts) :
          LET sel == IF x \in Range(ss.diff.sel) THEN Without(ss.diff.sel, x)
                     ELSE Append(ss.diff.sel, x)
          IN /\ x \in Range(ss.diff.sel) \/ CanAdd(ss.diff.sel)
             /\ Execute([ss EXCEPT !.diff.sel = sel], "differentiators", NoResponses)

\* "Generate Strategic Plan": the service answers each request in some way
PressGenerate ==
    /\ Rendered("button", "gen_plan")
    /\ \E responses \in [1..MaxSelections -> FlowResponses] :
          Execute(ss, "gen_plan", responses)

\* one of the four buttons no code is attached to
PressPlaceholder ==
    \E key \in {"comp_landscape", "gen_campaign", "create_messaging", "creative_campaign"} :
        /\ Rendered("button", key)
        /\ Execute(ss, "placeholder button", NoResponses)

Next ==
    \/ ClickLogin
    \/ SelectRole
    \/ SelectLifecycle
    \/ SelectJourney
    \/ SelectDisease
    \/ ChooseImperative
    \/ ChooseDifferentiator
    \/ PressGenerate
    \/ PressPlaceholder

Spec == Init /\ [][Next]_vars

-----------------------------------------------------------------------------
(* FilterSpec: filter_strategic_imperatives on bounded matrices            *)

\* how many rows a matrix has at most
MaxRows == 2

AxisColumns == <<"HCP", "Launch", "Awareness">>
MatrixColumns == <<IdentityColumn>> \o AxisColumns

\* the cells of one row: each marked "x" or empty, or all marked "X", or
\* marked in mixed case
RowMarks ==
    [Range(AxisColumns) -> {"x", NaN}]
    \cup { [c \in Range(AxisColumns) |-> "X"],
           [c \in Range(AxisColumns) |-> IF c = "Launch" THEN "x" ELSE "X"] }

MatrixRows ==
    { [c \in Range(MatrixColumns) |-> IF c = IdentityColumn THEN name ELSE marks[c]] :
        name \in {"A", "B", NaN}, marks \in RowMarks }

Matrices ==
    { [columns |-> MatrixColumns, rows |-> rows] :
        rows \in UNION { [1..n -> MatrixRows] : n \in 0..MaxRows } }

\* the values the filter is called with: the matrix's columns and a name
\* that is no column
FilterNames == Range(AxisColumns) \cup {"Payer"}

FilterInit ==
    /\ f_df \in Matrices
    /\ f_args = <<>>
    /\ f_result = [called |-> FALSE, ret |-> <<>>, errors |-> <<>>]
    /\ PageIdle
    /\ GenIdle

CallFilter ==
    /\ ~f_result.called
    /\ \E role \in FilterNames, lifecycle \in FilterNames, journey \in FilterNames :
      \E r \in {filter_strategic_imperatives(f_df, role, lifecycle, journey)} :
        /\ f_args' = <<role, lifecycle, journey>>
        /\ f_result' = [called |-> TRUE, ret |-> r.ret, errors |-> r.errors]
        /\ UNCHANGED <<f_df, wb, keeps_stale, api_key, ss, page, last_event, g_args, g_result>>

FilterNext == CallFilter

FilterSpec == FilterInit /\ [][FilterNext]_vars

-----------------------------------------------------------------------------
(* GenSpec: generate_ai_output on bounded response texts                   *)

\* how many tokens a response text has at most
MaxContentLen == 4

Contents ==
    UNION { [1..n -> Tokens] : n \in 0..MaxContentLen }
    \cup { Canonical, <<"txt">> \o Canonical \o <<"txt">> }

GenResponses ==
    { [status |-> "error", content |-> <<>>], [status |-> "none", content |-> <<>>] }
    \cup { [status |-> "text", content |-> c] : c \in Contents }

GenInit ==
    /\ g_args \in { [tactic_text |-> "T1", selected_differentiators |-> d, response |-> r] :
                       d \in {<<>>, <<"D1", "D2">>}, r \in GenResponses }
    /\ g_result = [called |-> FALSE, raised |-> FALSE, trace |-> <<>>, output |-> EmptyDict]
    /\ PageIdle
    /\ FilterIdle

CallGenerate ==
    /\ ~g_result.called
    /\ \E r \in {generate_ai_output(g_args.tactic_text, g_args.selected_differentiators,
                                    g_args.response)} :
          g_result' = [called |-> TRUE, raised |-> r.raised, trace |-> r.trace,
                       output |-> r.output]
    /\ UNCHANGED <<g_args, wb, keeps_stale, api_key, ss, page, last_event, f_df, f_args, f_result>>

GenNext == CallGenerate

GenSpec == GenInit /\ [][GenNext]_vars

-----------------------------------------------------------------------------
(* Properties of the page (Spec)                                           *)

Trace == page.trace
HasKind(t) == \E i \in 1..Len(Trace) : Trace[i].t = t
Indexes(t) == {i \in 1..Len(Trace) : Trace[i].t = t}
\* the k-th smallest element of a set of numbers
Kth(S, k) == CHOOSE i \in S : Cardinality({j \in S : j < i}) = k - 1

AxisEvents == {"role", "lifecycle", "journey", "disease"}
AllAxesChosen ==
    /\ ss.role # role_placeholder
    /\ ss.lifecycle # lifecycle_placeholder
    /\ ss.journey # journey_placeholder
    /\ ss.disease # disease_placeholder

\* C1: a stage is reached only when the stage before it is complete: Step 2
\* (where the Imperative Filter runs) only with all four axis values chosen,
\* Step 3 only with at least one imperative chosen, the "Generate Strategic
\* Plan" button only with at least one differentiator chosen; and a
\* generation request is sent only in an execution caused by a press of that
\* button, with all axes chosen and one to three imperatives and one to three
\* differentiators chosen.
C1_StagesGated ==
    /\ Rendered("header", "Step 2: Select Strategic Imperatives") => AllAxesChosen
    /\ Rendered("header", "Step 3: Select Product Differentiators") => Len(page.strategics) >= 1
    /\ Rendered("button", "gen_plan") => Len(page.differentiators) >= 1
    /\ HasKind("request") =>
          /\ AllAxesChosen
          /\ Len(page.strategics) \in 1..3
          /\ Len(page.differentiators) \in 1..3
          /\ last_event = "gen_plan"

C1_Witness ==
    /\ HasKind("request")
    /\ Len(page.strategics) = 3
    /\ Len(page.differentiators) = 2

\* C2 (as claimed): when every axis value is chosen and the Imperative Filter
\* returns an empty list, the execution shows the warning, presents neither
\* Step 3 nor the button, sends no request, and ends without an unhandled
\* error.
C2_EmptyFilterEndsCleanly ==
    Rendered("warning", NoImperativesMsg) =>
        /\ ~Rendered("header", "Step 3: Select Product Differentiators")
        /\ ~Rendered("button", "gen_plan")
        /\ ~HasKind("request")
        /\ ~HasKind("exception")
        /\ page.end = "done"

Sheet3Usable ==
    /\ Workbook(wb).sheet3.readable
    /\ Range(Sheet3Columns) \subseteq Range(Workbook(wb).sheet3.columns)
HasTacticRow(imperative) ==
    /\ Sheet3Usable
    /\ \E i \in 1..Len(Workbook(wb).sheet3.rows) :
          Workbook(wb).sheet3.rows[i][IdentityColumn] = imperative

\* C3: after a press of the button, the requests sent are one per selected
\* imperative that has a row in Sheet 3, in selection order; the result of
\* each (sub-header and three lines) is rendered before the next request is
\* sent; an imperative without a row gets the inline message and no request;
\* neither a missing row nor a failed generation stops the later requests.
C3_RequestsInSelectionOrder ==
    last_event = "gen_plan" =>
        LET expected == SelectSeq(page.strategics, HasTacticRow)
            requests == Indexes("request")
            results == Indexes("subheader")
        IN /\ Cardinality(requests) = Len(expected)
           /\ Cardinality(results) = Len(expected)
           /\ \A k \in 1..Len(expected) :
                 LET q == Kth(requests, k)
                     r == Kth(results, k)
                 IN /\ q < r
                    /\ k < Len(expected) => r + 3 < Kth(requests, k + 1)
                    /\ Trace[r].a = expected[k]
                    /\ Trace[r].b = Trace[q].a
                    /\ Trace[r + 1].t = "write" /\ Trace[r + 2].t = "write"
                    /\ Trace[r + 3].t = "write"
           /\ Sheet3Usable =>
                 \A i \in 1..Len(page.strategics) :
                    ~HasTacticRow(page.strategics[i]) =>
                        \E j \in 1..Len(Trace) :
                            Trace[j] = Ev("info", NoTacticMsg, page.strategics[i], <<>>)

\* a missing row in the middle and a failed generation before the last request
C3_Witness ==
    /\ last_event = "gen_plan"
    /\ page.strategics = <<"I4", "I3", "I1">>
    /\ \E e \in Indexes("error"), q \in Indexes("request"), n \in Indexes("info") :
          /\ Trace[e].a = GenerateErrorMsg
          /\ Trace[n].a = NoTacticMsg
          /\ e < n /\ n < q

\* C6: the tactic sent to the generator, and shown with the result, is the
\* "HCP Engagement" value of the first Sheet 3 row whose name equals the
\* imperative when the selected role is exactly "HCP", and that row's
\* "Patient & Caregiver" value for any other role.
C6_TacticByRole ==
    \A r \in Indexes("subheader") :
        LET rows == Workbook(wb).sheet3.rows
            named == {i \in 1..Len(rows) : rows[i][IdentityColumn] = Trace[r].a}
            row == rows[Kth(named, 1)]
            expected == IF ss.role = "HCP" THEN row["HCP Engagement"]
                        ELSE row["Patient & Caregiver"]
        IN /\ named # {}
           /\ Trace[r].b = expected
           /\ \E q \in Indexes("request") :
                 /\ q < r
                 /\ Trace[q].a = expected
                 /\ \A j \in q + 1..r - 1 : Trace[j].t = "error"

\* a role that differs from "HCP" only in case gets the patient column
C6_Witness ==
    /\ ss.role = "hcp"
    /\ \E q \in Indexes("request") : Trace[q].a = "P1"

LoadAndSchemaErrors ==
    {LoadErrorMsg, TooFewColumnsMsg, Sheet2ReadMsg, Sheet2ColumnMsg, Sheet3ReadMsg, Sheet3ColumnMsg}
Sheet1Bad ==
    \/ ~Workbook(wb).sheet1.readable
    \/ Len(Workbook(wb).sheet1.columns) < 13
Sheet2Bad ==
    \/ ~Workbook(wb).sheet2.readable
    \/ "Differentiator" \notin Range(Workbook(wb).sheet2.columns)
LastIsError(msgs) ==
    /\ Trace # <<>>
    /\ Trace[Len(Trace)].t = "error"
    /\ Trace[Len(Trace)].a \in msgs

\* C7: a load or schema error ends the execution at once.  When Sheet 1 is
\* unreadable or has fewer than 13 columns, when Step 3 finds Sheet 2
\* unreadable or without "Differentiator", when a press of the button finds
\* Sheet 3 unreadable or without one of its three columns, the error notice is
\* shown and is the last thing of the execution, which sends no request.
C7_SchemaErrorsStop ==
    /\ \A i \in 1..Len(Trace) :
          (Trace[i].t = "error" /\ Trace[i].a \in LoadAndSchemaErrors) =>
              /\ i = Len(Trace)
              /\ page.end = "stop"
              /\ ~HasKind("request")
    /\ (Sheet1Bad /\ HasKind("sidebar")) => LastIsError({LoadErrorMsg, TooFewColumnsMsg})
    /\ (Sheet2Bad /\ Rendered("header", "Step 3: Select Product Differentiators")) =>
          LastIsError({Sheet2ReadMsg, Sheet2ColumnMsg})
    /\ (~Sheet3Usable /\ last_event = "gen_plan") =>
          LastIsError({Sheet3ReadMsg, Sheet3ColumnMsg})

C7_Witness ==
    /\ wb = "sheet3 no HCP Engagement"
    /\ last_event = "gen_plan"
    /\ Rendered("button", "gen_plan")
    /\ LastIsError({Sheet3ColumnMsg})

ImperativeOptions ==
    IF Rendered("multiselect", "strategics") THEN ss.imp.opts ELSE <<>>

LoginButtons == {"Back", "Next", "Sign in with Microsoft"}

\* C9 (as claimed): a click on any button of the login overlay logs the user
\* in, and the main flow is rendered next.
C9_AnyClickLogsIn ==
    last_event \in LoginButtons =>
        ss.logged_in /\ HasKind("sidebar") /\ ~HasKind("form_submit_button")

\* C9 (amended): a click on "Next" or "Sign in with Microsoft" logs the user
\* in, and the main flow is rendered next instead of the overlay; a click on
\* "Back" leaves the user logged out, with the overlay rendered again.
C9_NextOrMicrosoftLogsIn ==
    /\ last_event \in {"Next", "Sign in with Microsoft"} =>
          ss.logged_in /\ HasKind("sidebar") /\ ~HasKind("form_submit_button")
    /\ last_event = "Back" =>
          ~ss.logged_in /\ ~HasKind("sidebar") /\ Rendered("form_submit_button", "Back")

C9_Witness ==
    /\ last_event = "Sign in with Microsoft"
    /\ ss.logged_in
    /\ Rendered("selectbox", "role")

-----------------------------------------------------------------------------
(* Properties of filter_strategic_imperatives (FilterSpec)                 *)

ArgsAreColumns == \A k \in 1..3 : f_args[k] \in Range(f_df.columns)

\* the rows marked "x" or "X" in the three named columns that name an imperative
MarkedRows ==
    {i \in 1..Len(f_df.rows) :
        /\ \A k \in 1..3 : f_df.rows[i][f_args[k]] \in {"x", "X"}
        /\ f_df.rows[i][IdentityColumn] # NaN}

\* C4: called with three column names, the filter returns exactly the
\* imperatives of the rows whose three cells are "x" in either case, in row
\* order (a row without a name contributes nothing).
C4_FilterExact ==
    (f_result.called /\ ArgsAreColumns) =>
        /\ Len(f_result.ret) = Cardinality(MarkedRows)
        /\ \A k \in 1..Len(f_result.ret) :
              f_result.ret[k] = f_df.rows[Kth(MarkedRows, k)][IdentityColumn]

C4_Witness ==
    /\ f_result.called
    /\ f_args = <<"HCP", "Launch", "Awareness">>
    /\ f_result.ret = <<"B", "A">>
    /\ f_df.rows[1]["HCP"] = "X"

\* C10: called with a value that is no column of the matrix, the filter
\* shows the schema error and returns the empty list.
C10_UnknownColumn ==
    (f_result.called /\ ~ArgsAreColumns) =>
        /\ f_result.ret = <<>>
        /\ f_result.errors = <<SchemaMismatchMsg>>

C10_Witness ==
    /\ f_result.called
    /\ f_args = <<"HCP", "Payer", "Awareness">>
    /\ Len(f_df.rows) = 2
    /\ f_result.ret = <<>>

-----------------------------------------------------------------------------
(* Properties of generate_ai_output (GenSpec)                              *)

GenContent == g_args.response.content
HasBraceSpan ==
    \E i, j \in 1..Len(GenContent) : i < j /\ GenContent[i] = "{" /\ GenContent[j] = "}"
\* from the first "{" to the last "}"
OuterSpan ==
    SubSeq(GenContent,
           Kth({i \in 1..Len(GenContent) : GenContent[i] = "{"}, 1),
           Len(GenContent) + 1
             - Kth({Len(GenContent) + 1 - j : j \in {j \in 1..Len(GenContent) : GenContent[j] = "}"}}, 1))
ShowedError == \E i \in 1..Len(g_result.trace) : g_result.trace[i].t = "error"

\* C5: generate_ai_output raises nothing; when the request fails, when the
\* text holds no "{...}" span, or when the span does not parse, it shows an
\* error and returns "N/A" three times; the text
\* {"description":"d","cost":"c","timeframe":"t"} gives exactly that record.
C5_GenerateTotal ==
    g_result.called =>
        /\ ~g_result.raised
        /\ g_args.response.status # "text" =>
              g_result.output = Sentinel /\ ShowedError
        /\ (g_args.response.status = "text" /\ ~HasBraceSpan) =>
              g_result.output = Sentinel /\ ShowedError
        /\ (g_args.response.status = "text" /\ HasBraceSpan /\ ~JsonValid(OuterSpan)) =>
              g_result.output = Sentinel /\ ShowedError
        /\ (g_args.response.status = "text" /\ GenContent = Canonical) =>
              /\ g_result.output = [description |-> "d", cost |-> "c", timeframe |-> "t"]
              /\ ~ShowedError

C5_Witness ==
    /\ g_result.called
    /\ g_args.response.status = "text"
    /\ GenContent = Canonical
    /\ g_result.output = [description |-> "d", cost |-> "c", timeframe |-> "t"]

=============================================================================
